---- MODULE Spec2Model ----
(***************************************************************************)
(* dnsperfbench (src/main.go): the DNS benchmark engine.                   *)
(*                                                                         *)
(* One task per resolver runs testrecursive: 5 priming queries, then       *)
(* runtests (15 queries) for the cache-hit host and for every operator of  *)
(* authSl.  Every query goes through testresolver, which holds one unit of *)
(* queryLimit for the time of the exchange.  A task holds one unit of      *)
(* workerLimit from its start until it has sent its bundle on resultschan  *)
(* (capacity 1).  The main flow launches the tasks, receives               *)
(* len(resolvers) bundles and then scores them.                            *)
(*                                                                         *)
(* init() builds the resolver list from the default resolvers and the      *)
(* -resolver values; with -httptest main builds a table from the results   *)
(* of httpbench.TestOverHTTP instead of running the benchmark.             *)
(*                                                                         *)
(* Specifications: Spec (NRes resolvers, every limit up to the bounds),    *)
(* SpecRun (one resolver, every answer script), SpecRank (differing and    *)
(* equal scores), SpecFair (Spec's steps under fair scheduling), SpecInit  *)
(* (init() alone), SpecDefault (init() then main, -workers at its          *)
(* default), SpecHTTP (the -httptest branch).                              *)
(*                                                                         *)
(* Durations are time.Duration values scaled to microseconds.              *)
(***************************************************************************)
EXTENDS Integers, Sequences, FiniteSets, TLC

\* ------------------------------------------------------------ bounds
NRes == 2        \* resolvers in the list
NAuth == 1       \* authoritative operators configured (of the 11)
MaxWorkers == 2  \* largest -workers value tried
MaxQueries == 2  \* largest -queries value tried
MaxAdd == 3      \* most -resolver values given on the command line
MaxHTTP == 2     \* most results httpbench.TestOverHTTP returns

\* ------------------------------------------------------------ constants
Millisecond == 1000
Second == 1000 * Millisecond
failDuration == 10 * Second
QueryTimeout == Second
testrep == 15
PrimeCount == 5
ChanCap == 1

expectedanswers == {"138.197.54.54", "138.197.53.4"}
hostnamesHIT == <<"fixed.turbobytes.net.", "fixed2.turbobytes.net.">>

\* The auths table in source order: operator, hostname, and the bytes of the
\* operator name (sort.Strings compares byte-wise).
AuthTable ==
  << [op |-> "NS1",         host |-> "tbrum3.com.",  bytes |-> <<78, 83, 49>>],
     [op |-> "Google",      host |-> "tbrum4.com.",  bytes |-> <<71, 111, 111, 103, 108, 101>>],
     [op |-> "AWS Route53", host |-> "tbrum5.com.",  bytes |-> <<65, 87, 83, 32, 82, 111, 117, 116, 101, 53, 51>>],
     [op |-> "DNSimple",    host |-> "tbrum14.com.", bytes |-> <<68, 78, 83, 105, 109, 112, 108, 101>>],
     [op |-> "GoDaddy",     host |-> "tbrum2.com.",  bytes |-> <<71, 111, 68, 97, 100, 100, 121>>],
     [op |-> "Akamai",      host |-> "tbrum9.com.",  bytes |-> <<65, 107, 97, 109, 97, 105>>],
     [op |-> "Dyn",         host |-> "tbrum10.com.", bytes |-> <<68, 121, 110>>],
     [op |-> "CloudFlare",  host |-> "tbrum8.com.",  bytes |-> <<67, 108, 111, 117, 100, 70, 108, 97, 114, 101>>],
     [op |-> "EasyDNS",     host |-> "tbrum16.com.", bytes |-> <<69, 97, 115, 121, 68, 78, 83>>],
     [op |-> "Ultradns",    host |-> "tbrum22.com.", bytes |-> <<85, 108, 116, 114, 97, 100, 110, 115>>],
     [op |-> "Azure",       host |-> "tbrum25.com.", bytes |-> <<65, 122, 117, 114, 101>>] >>

Min(a, b) == IF a < b THEN a ELSE b

Range(s) == {s[k] : k \in DOMAIN s}

\* The configured operators: the first NAuth rows of the table.
AuthRows == {AuthTable[k] : k \in 1..Min(NAuth, Len(AuthTable))}

auths == [o \in {row.op : row \in AuthRows} |->
            (CHOOSE row \in AuthRows : row.op = o).host]

AuthBytes(o) == (CHOOSE row \in AuthRows : row.op = o).bytes

\* Byte-wise lexicographic order of two operator names.
RECURSIVE BytesLess(_, _)
BytesLess(a, b) ==
  IF b = <<>> THEN FALSE
  ELSE IF a = <<>> THEN TRUE
  ELSE IF a[1] # b[1] THEN a[1] < b[1]
  ELSE BytesLess(Tail(a), Tail(b))

StrLess(x, y) == BytesLess(AuthBytes(x), AuthBytes(y))

\* sort.Strings over the keys of auths.
RECURSIVE SortStrings(_)
SortStrings(S) ==
  IF S = {} THEN <<>>
  ELSE LET m == CHOOSE x \in S : \A y \in S \ {x} : StrLess(x, y)
       IN <<m>> \o SortStrings(S \ {m})

authSl == SortStrings(DOMAIN auths)

\* ------------------------------------------------------------ the DNS exchange
\* What c.ExchangeContext hands back: in.Answer, rtt and err.  An answer record
\* is its type and, for an A record, its address.
ARecord(addr) == [rrtype |-> "A", a |-> addr]
CNAMERecord == [rrtype |-> "CNAME", a |-> ""]

RespOK(rtt, addr) == [err |-> FALSE, answer |-> <<ARecord(addr)>>, rtt |-> rtt]
RespTimeout == [err |-> TRUE, answer |-> <<>>, rtt |-> 0]
RespNoAnswer == [err |-> FALSE, answer |-> <<>>, rtt |-> 3 * Millisecond]
RespTwoAnswers ==
  [err |-> FALSE,
   answer |-> <<CNAMERecord, ARecord("1.2.3.4")>>,
   rtt |-> 3 * Millisecond]
RespCNAME == [err |-> FALSE, answer |-> <<CNAMERecord>>, rtt |-> 4 * Millisecond]
RespHijack == RespOK(2 * Millisecond, "1.2.3.4")

\* Round-trip times of answered queries; the exchange runs under QueryTimeout.
RttFast == 10 * Millisecond
RttFastPlus == 10 * Millisecond + 700
RttSlow == QueryTimeout

Responses ==
  { RespOK(RttFast, "138.197.54.54"), RespOK(RttFastPlus, "138.197.53.4"),
    RespOK(RttSlow, "138.197.54.54"),
    RespTimeout, RespNoAnswer, RespTwoAnswers, RespCNAME, RespHijack }

\* ------------------------------------------------------------ testresolver
\* The validation of lines 153-170: the returned duration and error.
ErrNil == "nil"

TestResolverReturnHijackRtt(resp) ==
  IF resp.err THEN [dur |-> failDuration, err |-> "exchange error"]
  ELSE IF Len(resp.answer) # 1
    THEN [dur |-> failDuration, err |-> "Number of answers is not 1"]
  ELSE IF resp.answer[1].rrtype # "A"
    THEN [dur |-> failDuration, err |-> "Answer is not type A"]
  ELSE IF resp.answer[1].a \notin expectedanswers
    THEN [dur |-> resp.rtt, err |-> "Got strange answer. Evil hijacking resolver?"]
  ELSE [dur |-> resp.rtt, err |-> ErrNil]

TestResolverReturnNoAllowlist(resp) ==
  IF resp.err THEN [dur |-> failDuration, err |-> "exchange error"]
  ELSE IF Len(resp.answer) # 1
    THEN [dur |-> failDuration, err |-> "Number of answers is not 1"]
  ELSE IF resp.answer[1].rrtype # "A"
    THEN [dur |-> failDuration, err |-> "Answer is not type A"]
  ELSE [dur |-> resp.rtt, err |-> ErrNil]

TestResolverReturn(resp) ==
  IF resp.err THEN [dur |-> failDuration, err |-> "exchange error"]
  ELSE IF Len(resp.answer) # 1
    THEN [dur |-> failDuration, err |-> "Number of answers is not 1"]
  ELSE IF resp.answer[1].rrtype # "A"
    THEN [dur |-> failDuration, err |-> "Answer is not type A"]
  ELSE IF resp.answer[1].a \notin expectedanswers
    THEN [dur |-> failDuration, err |-> "Got strange answer. Evil hijacking resolver?"]
  ELSE [dur |-> resp.rtt, err |-> ErrNil]

\* ------------------------------------------------------------ statistics
RECURSIVE SumSeq(_)
SumSeq(s) == IF s = <<>> THEN 0 ELSE s[1] + SumSeq(Tail(s))

\* stats.Mean then time.Duration(mean): the sum over the count, truncated.
MeanNoDiv(vals) == SumSeq(vals)

Mean(vals) == SumSeq(vals) \div Len(vals)

\* The k-th entry of the sorted copy stats.Median works on: the value with
\* fewer than k entries below it and at least k entries not above it.
KthSmallest(s, k) ==
  CHOOSE v \in Range(s) :
    /\ Cardinality({j \in DOMAIN s : s[j] < v}) < k
    /\ Cardinality({j \in DOMAIN s : s[j] <= v}) >= k

\* stats.Median then time.Duration(median): the middle of the sorted copy, the
\* mean of the two middle values for an even count, truncated.
Median(vals) ==
  LET l == Len(vals)
  IN IF l % 2 = 0
     THEN (KthSmallest(vals, l \div 2) + KthSmallest(vals, (l \div 2) + 1)) \div 2
     ELSE KthSmallest(vals, (l \div 2) + 1)

\* runtests' return value (line 197); failratio is the fraction fails/testrep,
\* kept as numerator and denominator.
RunTestsSummary(vals, fails) ==
  [mean |-> Mean(vals), median |-> Median(vals), failratio |-> <<fails, testrep>>]

\* The loop condition of runtests (line 177), given the error of the call
\* that just returned.
RunTestsLoopStopOnError(i, err) == i < testrep /\ err = ErrNil

RunTestsLoop(i, err) == i < testrep

\* ------------------------------------------------------------ Score
\* result.mean/time.Millisecond is an integer division of two Durations.
WholeMs(dur) == dur \div Millisecond

RECURSIVE SumAuth(_, _)
SumAuth(res, ops) ==
  IF ops = <<>> THEN 0
  ELSE WholeMs(res[ops[1]].mean) + WholeMs(res[ops[1]].median)
       + SumAuth(res, Tail(ops))

Score(res) ==
  5 * (WholeMs(res["ResolverHit"].mean) + WholeMs(res["ResolverHit"].median))
  + SumAuth(res, authSl)

\* Go map lookup: the zero value for a missing key.
ZeroSummary == [mean |-> 0, median |-> 0, failratio |-> <<0, testrep>>]
EmptyBundle == [k \in {} |-> ZeroSummary]

\* ------------------------------------------------------------ state
VARIABLES
  defaultResolvers, \* the keys of resolverNames, in the order the map gave them
  tmp,          \* the values of the -resolver flag, in the order given
  resolvers,    \* the resolver list built by init()
  workerLimit,  \* semaphore.Weighted: [size, cur]
  queryLimit,   \* semaphore.Weighted: [size, cur]
  net,          \* per resolver, how it answers its successive queries
  rnd,          \* per resolver task, what its rand.Intn draw returns
  pc,           \* per resolver task, where it stands
  phase,        \* 0 priming, 1 "ResolverHit", 1+j the j-th operator of authSl
  i,            \* loop counter of the priming loop or of runtests
  vals,         \* runtests: durations collected so far
  fails,        \* runtests: failures counted so far
  local,        \* testrecursive: its results map
  hithost,      \* testrecursive: the cache-hit hostname it drew
  inresp,       \* testresolver: the last response of the exchange
  ret,          \* testresolver: its last return value
  lastq,        \* testresolver: the question of the query last issued
  issued,       \* per task, the testresolver calls it has made
  calls,        \* per task and key, the probe calls that have returned
  errs,         \* per task and key, those that returned an error
  resultschan,  \* the buffered results channel
  mpc,          \* init, then main: launch, gather, score, summary, done;
                \* or, with -httptest: httptest, httpRows, httpFail, exit
  mi,           \* main: loop index
  nrecv,        \* main: results received from resultschan so far
  results,      \* main: resolver -> bundle
  resscore,     \* main: resolver -> score
  summary,      \* main: the sorted Summary
  httpresults,  \* -httptest: what httpbench.TestOverHTTP returned
  found,        \* -httptest: the servers that have a result row
  table         \* -httptest: the rows appended to the table

vars ==
  << defaultResolvers, tmp, resolvers, workerLimit, queryLimit, net, rnd, pc, phase, i,
     vals, fails, local, hithost, inresp, ret, lastq, issued, calls, errs, resultschan,
     mpc, mi, nrecv, results, resscore, summary, httpresults, found, table >>

httpvars == << httpresults, found, table >>
envvars == << defaultResolvers, tmp, resolvers, net, rnd, httpvars >>
taskvars ==
  << phase, i, vals, fails, local, hithost, inresp, ret, lastq, issued, calls, errs >>
mainvars == << mpc, mi, nrecv, results, resscore, summary >>

Tasks == 1..Len(resolvers)

\* The keys of resolverNames, the default resolvers.
ResolverPool ==
  << "8.8.8.8", "1.1.1.1", "9.9.9.9", "114.114.114.114", "119.29.29.29",
     "180.76.76.76", "208.67.222.222", "199.85.126.20", "185.228.168.168",
     "8.26.56.26" >>

\* ------------------------------------------------------------ semaphores
\* semaphore.Weighted.Acquire(ctx, 1) returns once one unit is free.
CanAcquireOffByOne(sem) == sem.cur <= sem.size

CanAcquire(sem) == sem.size - sem.cur >= 1

Acquired(sem) == [sem EXCEPT !.cur = @ + 1]

Released(sem, n) == [sem EXCEPT !.cur = @ - n]

\* Units the deferred queryLimit.Release gives back when testresolver returns
\* with error err (line 143: one, on every return path).
QueryReleaseOnSuccessOnly(err) == IF err = ErrNil THEN 1 ELSE 0

QueryRelease(err) == 1

\* ------------------------------------------------------------ the network
\* A resolver answers its first `switch` queries with `first`, the rest with
\* `then`.
Script(first, then, switch) == [first |-> first, then |-> then, switch |-> switch]

\* Number of the query a task is about to issue or has in flight.
QueryNo(r) ==
  IF phase[r] = 0 THEN i[r] + 1
  ELSE PrimeCount + (phase[r] - 1) * testrep + i[r] + 1

NetResponse(r) ==
  IF QueryNo(r) <= net[r].switch THEN net[r].first ELSE net[r].then

\* ------------------------------------------------------------ testrecursive
\* The key under which the runtests of a phase is stored.
PhaseKey(p) == IF p = 1 THEN "ResolverHit" ELSE authSl[p - 1]

\* hostname and randomisation of the queries of a phase.
PhaseHostRandomHit(r) ==
  IF phase[r] = 0 THEN [host |-> hostnamesHIT[hithost[r]], rnd |-> FALSE]
  ELSE IF phase[r] = 1 THEN [host |-> hostnamesHIT[hithost[r]], rnd |-> TRUE]
  ELSE [host |-> auths[authSl[phase[r] - 1]], rnd |-> TRUE]

PhaseHost(r) ==
  IF phase[r] <= 1 THEN [host |-> hostnamesHIT[hithost[r]], rnd |-> FALSE]
  ELSE [host |-> auths[authSl[phase[r] - 1]], rnd |-> TRUE]

\* The last phase of testrecursive: the runtests of the last operator.
LastPhaseSkipsLast == Len(authSl)

LastPhase == 1 + Len(authSl)

\* testresolver calls the caller starts before it waits for one to return, in
\* phase p: every call of the priming loop (line 263) and of runtests (line
\* 182) is an ordinary call, so the next one starts when this one has returned.
CallsStartedPrimingAtOnce(p) == IF p = 0 THEN PrimeCount ELSE 1

CallsStarted(p) == 1

\* What a returned probe call is counted under: the priming loop, or the key
\* of the runtests that made it.
Keys == {"prime", "ResolverHit"} \cup Range(authSl)

\* ------------------------------------------------------------ task steps
\* go func(recursive): workerLimit.Acquire, then testrecursive begins (lines
\* 336-342, 259-262): an empty results map, a random cache-hit hostname, and
\* the priming loop.
AcquireWorker(r) ==
  /\ pc[r] = "acquireWorker"
  /\ CanAcquire(workerLimit)
  /\ workerLimit' = Acquired(workerLimit)
  /\ hithost' = [hithost EXCEPT ![r] = rnd[r] + 1]
  /\ local' = [local EXCEPT ![r] = EmptyBundle]
  /\ phase' = [phase EXCEPT ![r] = 0]
  /\ i' = [i EXCEPT ![r] = 0]
  /\ issued' = [issued EXCEPT ![r] = @ + CallsStarted(0)]
  /\ pc' = [pc EXCEPT ![r] = "queryAcquire"]
  /\ UNCHANGED << envvars, queryLimit, vals, fails, inresp, ret, lastq, calls, errs,
                  resultschan, mainvars >>

\* testresolver: queryLimit.Acquire (line 138); the exchange is then under way.
AcquireQuery(r) ==
  /\ pc[r] = "queryAcquire"
  /\ CanAcquire(queryLimit)
  /\ queryLimit' = Acquired(queryLimit)
  /\ lastq' = [lastq EXCEPT ![r] = PhaseHost(r)]
  /\ pc' = [pc EXCEPT ![r] = "exchange"]
  /\ UNCHANGED << envvars, workerLimit, phase, i, vals, fails, local, hithost,
                  inresp, ret, issued, calls, errs, resultschan, mainvars >>

\* testresolver returns: the response is validated, the slot is released by the
\* deferred call, and the caller (the priming loop or runtests, then
\* testrecursive) goes on to its next query or to the send.
Exchange(r) ==
  /\ pc[r] = "exchange"
  /\ LET resp == NetResponse(r)
         rv == TestResolverReturn(resp)
         key == IF phase[r] = 0 THEN "prime" ELSE PhaseKey(phase[r])
         nvals == Append(vals[r], rv.dur)
         nfails == IF rv.err # ErrNil THEN fails[r] + 1 ELSE fails[r]
         ni == i[r] + 1
         priming == phase[r] = 0
         \* the loop this call was made from goes round again
         again == IF priming THEN ni < PrimeCount ELSE RunTestsLoop(ni, rv.err)
         \* the loop is over and testrecursive has another runtests to start
         startNext == ~again /\ (priming \/ phase[r] < LastPhase)
         \* the last runtests is over: testrecursive returns the bundle
         last == ~again /\ ~startNext
     IN /\ inresp' = [inresp EXCEPT ![r] = resp]
        /\ ret' = [ret EXCEPT ![r] = rv]
        /\ queryLimit' = Released(queryLimit, QueryRelease(rv.err))
        /\ calls' = [calls EXCEPT ![r][key] = @ + 1]
        /\ errs' = [errs EXCEPT ![r][key] = IF rv.err # ErrNil THEN @ + 1 ELSE @]
        /\ phase' = [phase EXCEPT ![r] = IF startNext THEN @ + 1 ELSE @]
        /\ i' = [i EXCEPT ![r] = IF startNext THEN 0 ELSE ni]
        /\ vals' = [vals EXCEPT ![r] =
                      IF startNext THEN <<>> ELSE IF priming THEN @ ELSE nvals]
        /\ fails' = [fails EXCEPT ![r] =
                       IF startNext THEN 0 ELSE IF priming THEN @ ELSE nfails]
        /\ local' = [local EXCEPT ![r] =
                       IF ~priming /\ ~again
                       THEN (PhaseKey(phase[r]) :> RunTestsSummary(nvals, nfails)) @@ @
                       ELSE @]
        /\ issued' = [issued EXCEPT ![r] =
                        IF last THEN @
                        ELSE @ + CallsStarted(IF startNext THEN phase[r] + 1 ELSE phase[r])]
        /\ pc' = [pc EXCEPT ![r] = IF last THEN "send" ELSE "queryAcquire"]
  /\ UNCHANGED << envvars, workerLimit, hithost, lastq, resultschan, mainvars >>

\* The identity a task puts on its bundle (line 342): the goroutine's own
\* argument, not the loop variable of main.
ResultTagLoopVariable(r) == resolvers[Len(resolvers)]

ResultTag(r) == resolvers[r]

\* resultschan <- resultoutput{...} (line 342): waits while the buffer is full.
Send(r) ==
  /\ pc[r] = "send"
  /\ Len(resultschan) < ChanCap
  /\ resultschan' =
       Append(resultschan, [recursive |-> ResultTag(r), result |-> local[r]])
  /\ pc' = [pc EXCEPT ![r] = "releaseWorker"]
  /\ UNCHANGED << envvars, workerLimit, queryLimit, taskvars, mainvars >>

\* defer workerLimit.Release(1) (line 341): the semaphore once the task's
\* function has returned.
WorkerReleaseMissing(sem) == sem

WorkerRelease(sem) == Released(sem, 1)

\* The deferred workerLimit.Release(1) (line 341) runs as the task returns.
ReleaseWorker(r) ==
  /\ pc[r] = "releaseWorker"
  /\ workerLimit' = WorkerRelease(workerLimit)
  /\ pc' = [pc EXCEPT ![r] = "done"]
  /\ UNCHANGED << envvars, queryLimit, taskvars, resultschan, mainvars >>

\* ------------------------------------------------------------ main
\* for _, res := range resolvers { sleep; go func(res) } (lines 332-344).
Launch ==
  /\ mpc = "launch"
  /\ pc' = [pc EXCEPT ![mi] = "acquireWorker"]
  /\ IF mi < Len(resolvers)
     THEN mi' = mi + 1 /\ UNCHANGED mpc
     ELSE mi' = 1 /\ mpc' = "gather"
  /\ UNCHANGED << envvars, workerLimit, queryLimit, taskvars,
                  resultschan, nrecv, results, resscore, summary >>

\* Number of receives the gather loop makes (line 346).
GatherCountShort == Len(resolvers) - 1

GatherCountLong == Len(resolvers) + 1

GatherCount == Len(resolvers)

\* result := <-resultschan; results[result.recursive] = result.result.
Gather ==
  /\ mpc = "gather"
  /\ resultschan # <<>>
  /\ LET result == Head(resultschan)
     IN results' = (result.recursive :> result.result) @@ results
  /\ resultschan' = Tail(resultschan)
  /\ nrecv' = nrecv + 1
  /\ IF mi < GatherCount
     THEN mi' = mi + 1 /\ UNCHANGED mpc
     ELSE mi' = 1 /\ mpc' = "score"
  /\ UNCHANGED << envvars, workerLimit, queryLimit, pc, taskvars,
                  resscore, summary >>

\* result := results[res]; resscore[res] = result.Score() (lines 351-359).
ScoreStep ==
  /\ mpc = "score"
  /\ LET res == resolvers[mi]
         result == IF res \in DOMAIN results THEN results[res] ELSE EmptyBundle
     IN resscore' = (res :> Score(result)) @@ resscore
  /\ IF mi < Len(resolvers)
     THEN mi' = mi + 1 /\ UNCHANGED mpc
     ELSE mi' = 1 /\ mpc' = "summary"
  /\ UNCHANGED << envvars, workerLimit, queryLimit, pc, taskvars,
                  resultschan, nrecv, results, summary >>

\* Summary.Less (line 211).
LessGreater(a, b) == a.Score > b.Score

Less(a, b) == a.Score < b.Score

\* The orders sort.Sort may leave: every entry of resscore once, none out of
\* order by Less (the map is ranged in any order, the sort is not stable).
SortedSummaries ==
  LET n == Cardinality(DOMAIN resscore)
  IN { s \in [1..n -> [Res : DOMAIN resscore, Score : Range(resscore)]] :
         /\ \A k \in 1..n : s[k].Score = resscore[s[k].Res]
         /\ \A k, l \in 1..n : k # l => s[k].Res # s[l].Res
         /\ \A k, l \in 1..n : k < l => ~Less(s[l], s[k]) }

\* Lines 361-391: build the summary, sort it, print it and the recommendation.
Summarise ==
  /\ mpc = "summary"
  /\ \E s \in SortedSummaries : summary' = s
  /\ mpc' = "done"
  /\ UNCHANGED << envvars, workerLimit, queryLimit, pc, taskvars,
                  resultschan, mi, nrecv, results, resscore >>

\* The resolver the last line of the report recommends (lines 386-391).
Recommendation == summary[1].Res

Next ==
  \/ \E r \in Tasks : AcquireWorker(r)
  \/ \E r \in Tasks : AcquireQuery(r)
  \/ \E r \in Tasks : Exchange(r)
  \/ \E r \in Tasks : Send(r)
  \/ \E r \in Tasks : ReleaseWorker(r)
  \/ Launch
  \/ Gather
  \/ ScoreStep
  \/ Summarise

\* ------------------------------------------------------------ initial states
NoReturn == [dur |-> 0, err |-> "none"]

\* The state of a task that has not started.
FreshTasks(list, value) == [r \in DOMAIN list |-> value]

NoQuestion == [host |-> "", rnd |-> FALSE]

\* The state at label `at`: after flag.Parse() and the two NewWeighted (lines
\* 99-109) with `at` = "init", after init() with "launch".  `defaults` is
\* defaultResolvers, `flags` the -resolver values, `list` the resolver list.
InitAt(at, defaults, flags, list, workers, queries, scripts, draws) ==
  /\ defaultResolvers = defaults
  /\ tmp = flags
  /\ resolvers = list
  /\ rnd = draws
  /\ workerLimit = [size |-> workers, cur |-> 0]
  /\ queryLimit = [size |-> queries, cur |-> 0]
  /\ net = scripts
  /\ pc = FreshTasks(list, "unlaunched")
  /\ phase = FreshTasks(list, 0)
  /\ i = FreshTasks(list, 0)
  /\ vals = FreshTasks(list, <<>>)
  /\ fails = FreshTasks(list, 0)
  /\ local = FreshTasks(list, EmptyBundle)
  /\ hithost = FreshTasks(list, 1)
  /\ inresp = FreshTasks(list, RespTimeout)
  /\ ret = FreshTasks(list, NoReturn)
  /\ lastq = FreshTasks(list, NoQuestion)
  /\ issued = FreshTasks(list, 0)
  /\ calls = FreshTasks(list, [k \in Keys |-> 0])
  /\ errs = FreshTasks(list, [k \in Keys |-> 0])
  /\ resultschan = <<>>
  /\ mpc = at
  /\ mi = 1
  /\ nrecv = 0
  /\ results = [k \in {} |-> EmptyBundle]
  /\ resscore = [k \in {} |-> 0]
  /\ summary = <<>>
  /\ httpresults = <<>>
  /\ found = {}
  /\ table = <<>>

\* After init() of a run without -resolver values: the list, the two
\* semaphores of the given sizes, no task launched.
InitWith(list, workers, queries, scripts, draws) ==
  InitAt("launch", list, <<>>, list, workers, queries, scripts, draws)

\* Every sequence over S of length at most n.
SeqsUpTo(S, n) == UNION {[1..m -> S] : m \in 0..n}

\* ------------------------------------------------------------ -httptest
\* resolverNames (lines 40-56), the IPv4 entries.
resolverNames ==
  [k \in Range(ResolverPool) |->
     CASE k = "8.8.8.8" -> "Google"
       [] k = "1.1.1.1" -> "Cloudflare"
       [] k = "9.9.9.9" -> "Quad9"
       [] k = "114.114.114.114" -> "114dns"
       [] k = "119.29.29.29" -> "DNSPod"
       [] k = "180.76.76.76" -> "Baidu"
       [] k = "208.67.222.222" -> "OpenDNS"
       [] k = "199.85.126.20" -> "Norton"
       [] k = "185.228.168.168" -> "Clean Browsing"
       [] k = "8.26.56.26" -> "Comodo"]

\* name := resolverNames[server]; if name == "" { name = "Unknown" }.
NameOf(server) ==
  IF server \in DOMAIN resolverNames THEN resolverNames[server] ELSE "Unknown"

\* The cells of a table row: a text, or a duration printed in whole
\* milliseconds.
TextCell(t) == [kind |-> "text", text |-> t, server |-> "", ms |-> 0]

\* fmt.Sprintf("%s (%s)", server, name).
LabelCell(server) == [kind |-> "label", text |-> NameOf(server), server |-> server, ms |-> 0]

\* d.Round(time.Millisecond).String(): halves round away from zero.
DurationCell(d) ==
  [kind |-> "duration", text |-> "", server |-> "",
   ms |-> (d + Millisecond \div 2) \div Millisecond]

\* The row of a result (line 304).
ResultRow(res) ==
  << LabelCell(res.Server), TextCell(res.CI.Addr), DurationCell(res.CI.DNS),
     DurationCell(res.CI.Connect), DurationCell(res.CI.SSL), DurationCell(res.CI.TTFB),
     DurationCell(res.CI.Transfer), DurationCell(res.CI.Total) >>

\* The row stamped for a server without a result (line 316).
FailRow(server) ==
  << LabelCell(server), TextCell("FAIL"), TextCell("FAIL"), TextCell("FAIL"),
     TextCell("FAIL"), TextCell("FAIL"), TextCell("FAIL"), TextCell("FAIL") >>

\* Connection timings the collaborator may report.
ConnInfos ==
  { [Addr |-> "93.184.216.34", DNS |-> 12 * Millisecond + 500, Connect |-> 20 * Millisecond,
     SSL |-> 45 * Millisecond + 499, TTFB |-> 80 * Millisecond, Transfer |-> 499,
     Total |-> 158 * Millisecond],
    [Addr |-> "93.184.216.34", DNS |-> 3 * Millisecond, Connect |-> 9 * Millisecond,
     SSL |-> 0, TTFB |-> 30 * Millisecond, Transfer |-> Millisecond,
     Total |-> 43 * Millisecond] }

\* results := httpbench.TestOverHTTP(u, resolvers) (line 293): the collaborator
\* returns results for servers of the list, at most MaxHTTP of them.
HTTPTest ==
  /\ mpc = "httptest"
  /\ \E res \in SeqsUpTo([Server : Range(resolvers), CI : ConnInfos], MaxHTTP) :
       /\ httpresults' = res
       /\ mpc' = IF res = <<>> THEN "httpFail" ELSE "httpRows"
  /\ mi' = 1
  /\ UNCHANGED << defaultResolvers, tmp, resolvers, net, rnd, found, table, workerLimit,
                  queryLimit, pc, taskvars, resultschan, nrecv, results, resscore,
                  summary >>

\* One turn of `for _, res := range results` (lines 299-307).
HTTPRow ==
  /\ mpc = "httpRows"
  /\ table' = Append(table, ResultRow(httpresults[mi]))
  /\ found' = found \cup {httpresults[mi].Server}
  /\ IF mi < Len(httpresults)
     THEN mi' = mi + 1 /\ UNCHANGED mpc
     ELSE mi' = 1 /\ mpc' = "httpFail"
  /\ UNCHANGED << defaultResolvers, tmp, resolvers, net, rnd, httpresults, workerLimit,
                  queryLimit, pc, taskvars, resultschan, nrecv, results, resscore,
                  summary >>

\* _, ok := found[server] (line 314).
IsFoundNever(server) == FALSE

IsFound(server) == server \in found

\* One turn of `for _, server := range resolvers` (lines 309-318); after the
\* last one the table is rendered and the program exits (lines 319-321).
HTTPFail ==
  /\ mpc = "httpFail"
  /\ table' = IF IsFound(resolvers[mi]) THEN table
              ELSE Append(table, FailRow(resolvers[mi]))
  /\ IF mi < Len(resolvers)
     THEN mi' = mi + 1 /\ UNCHANGED mpc
     ELSE mi' = 1 /\ mpc' = "exit"
  /\ UNCHANGED << defaultResolvers, tmp, resolvers, net, rnd, httpresults, found,
                  workerLimit, queryLimit, pc, taskvars, resultschan, nrecv, results,
                  resscore, summary >>

NextHTTP == HTTPTest \/ HTTPRow \/ HTTPFail

\* ------------------------------------------------------------ init()
\* appendIfMissing (lines 89-96).
appendAlways(src, new) == Append(src, new)

appendIfMissing(src, new) ==
  IF \E k \in DOMAIN src : src[k] = new THEN src ELSE Append(src, new)

\* One turn of `for _, res := range tmp` (lines 110-112).  No task exists yet:
\* main will start one for every entry of the list.
InitAppend ==
  /\ mpc = "init"
  /\ mi <= Len(tmp)
  /\ resolvers' = appendIfMissing(resolvers, tmp[mi])
  /\ mi' = mi + 1
  /\ pc' = FreshTasks(resolvers', "unlaunched")
  /\ phase' = FreshTasks(resolvers', 0)
  /\ i' = FreshTasks(resolvers', 0)
  /\ vals' = FreshTasks(resolvers', <<>>)
  /\ fails' = FreshTasks(resolvers', 0)
  /\ local' = FreshTasks(resolvers', EmptyBundle)
  /\ hithost' = FreshTasks(resolvers', 1)
  /\ inresp' = FreshTasks(resolvers', RespTimeout)
  /\ ret' = FreshTasks(resolvers', NoReturn)
  /\ lastq' = FreshTasks(resolvers', NoQuestion)
  /\ issued' = FreshTasks(resolvers', 0)
  /\ calls' = FreshTasks(resolvers', [k \in Keys |-> 0])
  /\ errs' = FreshTasks(resolvers', [k \in Keys |-> 0])
  /\ UNCHANGED << defaultResolvers, tmp, net, rnd, httpvars, workerLimit, queryLimit,
                  resultschan, mpc, nrecv, results, resscore, summary >>

\* The loop is over; init() sorts authSl and returns (lines 113-124), and main
\* begins.
InitReturn ==
  /\ mpc = "init"
  /\ mi > Len(tmp)
  /\ mpc' = "launch"
  /\ mi' = 1
  /\ UNCHANGED << envvars, workerLimit, queryLimit, pc, taskvars, resultschan,
                  nrecv, results, resscore, summary >>

NextInit == InitAppend \/ InitReturn

HitEnd == PrimeCount + testrep

\* How the resolvers of a run answer: the k-th resolver follows the k-th
\* profile, cyclically.
Profiles ==
  << Script(RespOK(RttFast, "138.197.54.54"), RespOK(RttFast, "138.197.54.54"), HitEnd),
     Script(RespOK(RttFastPlus, "138.197.53.4"), RespOK(RttFast, "138.197.54.54"), HitEnd),
     Script(RespTimeout, RespOK(RttSlow, "138.197.54.54"), PrimeCount + 7),
     Script(RespNoAnswer, RespTwoAnswers, HitEnd),
     Script(RespCNAME, RespHijack, HitEnd) >>

ProfileAt(r) == Profiles[((r - 1) % Len(Profiles)) + 1]

\* A run of NRes resolvers under every worker and query limit up to the bounds.
Init ==
  \E workers \in 1..MaxWorkers, queries \in 1..MaxQueries :
    InitWith(SubSeq(ResolverPool, 1, NRes), workers, queries,
             [r \in 1..NRes |-> ProfileAt(r)],
             [r \in 1..NRes |-> r % Len(hostnamesHIT)])

Spec == Init /\ [][Next]_vars

\* Scheduling: while some goroutine can take a step the Go runtime runs one,
\* and every exchange returns (its context times out after a second, line
\* 150).  Nothing more is assumed: no order among the goroutines that can run.
Progress == WF_vars(Next)

\* NRes resolvers and a single worker permit (-workers 1), the limit under
\* which a task that keeps its permit while it waits to send keeps every
\* other task from starting, with every query limit up to the bound.
InitFair ==
  \E queries \in 1..MaxQueries :
    InitWith(SubSeq(ResolverPool, 1, NRes), 1, queries,
             [r \in 1..NRes |-> ProfileAt(r)],
             [r \in 1..NRes |-> r % Len(hostnamesHIT)])

SpecFair == InitFair /\ [][Next]_vars /\ Progress

\* One resolver, one worker, one query slot: the run of a single testrecursive
\* against every two-part script that changes during the measured cache-hit
\* run, for either draw of the cache-hit hostname.
InitRun ==
  \E first \in Responses, then \in Responses, switch \in PrimeCount..HitEnd,
     draw \in 0..(Len(hostnamesHIT) - 1) :
    InitWith(SubSeq(ResolverPool, 1, 1), 1, 1,
             [r \in 1..1 |-> Script(first, then, switch)],
             [r \in 1..1 |-> draw])

SpecRun == InitRun /\ [][Next]_vars

\* NRes resolvers run one at a time (-workers 1 -queries 1), in whichever
\* order the tasks get the permit, for every assignment of consecutive
\* profiles to the resolvers: runs whose scores differ and runs whose scores
\* are equal.
InitRank ==
  \E shift \in 0..(Len(Profiles) - 1) :
    InitWith(SubSeq(ResolverPool, 1, NRes), 1, 1,
             [r \in 1..NRes |-> ProfileAt(r + shift)],
             [r \in 1..NRes |-> r % Len(hostnamesHIT)])

SpecRank == InitRank /\ [][Next]_vars

\* Addresses a user may pass with -resolver: a default one and others.
UserResolvers == {ResolverPool[1], "10.0.0.1", "10.0.0.2"}

\* Every order in which `range resolverNames` may yield the keys in S.
Orders(S) ==
  {s \in [1..Cardinality(S) -> S] : \A k, l \in DOMAIN s : k # l => s[k] # s[l]}

\* init() at line 109: the first NRes default resolvers in whatever order the
\* map gave them, up to MaxAdd -resolver values, -workers left at its default
\* len(defaultResolvers) (line 104).
InitInit ==
  \E defaults \in Orders(Range(SubSeq(ResolverPool, 1, NRes))),
     flags \in SeqsUpTo(UserResolvers, MaxAdd) :
    InitAt("init", defaults, flags, defaults, Len(defaults), 1,
           [r \in 1..(NRes + MaxAdd) |-> ProfileAt(r)],
           [r \in 1..(NRes + MaxAdd) |-> r % Len(hostnamesHIT)])

SpecInit == InitInit /\ [][NextInit]_vars

\* A whole run with -workers left at its default, len(defaultResolvers) (line
\* 104): init() from line 109 with at most one -resolver value, a default
\* address or a new one, then main.
InitDefault ==
  \E flags \in SeqsUpTo({ResolverPool[1], "10.0.0.1"}, 1), queries \in 1..MaxQueries :
    LET defaults == SubSeq(ResolverPool, 1, NRes)
    IN InitAt("init", defaults, flags, defaults, Len(defaults), queries,
              [r \in 1..(NRes + 1) |-> ProfileAt(r)],
              [r \in 1..(NRes + 1) |-> r % Len(hostnamesHIT)])

NextDefault == NextInit \/ Next

SpecDefault == InitDefault /\ [][NextDefault]_vars

\* main with -httptest set, after init(): the NRes defaults alone, or with one
\* address added that resolverNames does not know.
InitHTTP ==
  \E flags \in {<<>>, <<"10.0.0.1">>}, workers \in 1..MaxWorkers :
    LET defaults == SubSeq(ResolverPool, 1, NRes)
    IN InitAt("httptest", defaults, flags, defaults \o flags, workers, 1,
              [r \in 1..(NRes + 1) |-> ProfileAt(r)],
              [r \in 1..(NRes + 1) |-> r % Len(hostnamesHIT)])

SpecHTTP == InitHTTP /\ [][NextHTTP]_vars

\* ------------------------------------------------------------ claims
\* Tasks whose testresolver call holds a query slot.
InFlight == {r \in Tasks : pc[r] = "exchange"}

\* Tasks that hold a worker permit: running testrecursive, sending, or about
\* to run the deferred release.
HoldsWorker ==
  {r \in Tasks : pc[r] \in {"queryAcquire", "exchange", "send", "releaseWorker"}}

\* Tasks whose testrecursive has returned its bundle.
Returned == {r \in Tasks : pc[r] \in {"send", "releaseWorker", "done"}}

\* C1: at any moment the queries in flight, over all resolver tasks together
\* and priming queries included, number at most the query limit.
C1_QueriesInFlightBounded == Cardinality(InFlight) <= queryLimit.size

\* C1 witness: a priming query of one resolver fills the only slot while
\* another resolver's task waits for a slot.
C1_Witness ==
  \E a, b \in Tasks :
    /\ a # b
    /\ pc[a] = "exchange" /\ phase[a] = 0
    /\ pc[b] = "queryAcquire"
    /\ queryLimit.size = 1
    /\ workerLimit.size >= 2

\* C2: at any moment the tasks that hold a worker permit number at most the
\* worker limit, whatever the query limit.
C2_WorkerPermitsBounded == Cardinality(HoldsWorker) <= workerLimit.size

\* C2 witness: one task holds the only permit and is sending its bundle while
\* another still waits for a permit, with query slots to spare.
C2_Witness ==
  \E a, b \in Tasks :
    /\ pc[a] = "send"
    /\ pc[b] = "acquireWorker"
    /\ workerLimit.size = 1
    /\ queryLimit.size > workerLimit.size

\* C3: the slots taken from the Query Rate Limiter are exactly those of the
\* calls in flight: every return gives back one slot, whatever the outcome, so
\* with nothing in flight every slot is free, and none is given back twice.
C3_QuerySlotsBalanced ==
  /\ queryLimit.cur = Cardinality(InFlight)
  /\ queryLimit.cur >= 0

\* C3 witness: a call has returned the hijack error and its slot is free again.
C3_Witness ==
  \E r \in Tasks :
    /\ ret[r].err = "Got strange answer. Evil hijacking resolver?"
    /\ pc[r] = "queryAcquire"
    /\ InFlight = {}
    /\ queryLimit.cur = 0

\* C4: when scoring starts the main flow has received exactly len(resolvers)
\* results, every task has sent its one bundle, and the results map holds for
\* each resolver of the list the bundle of that resolver's task, and nothing
\* else.
C4_AllResultsBeforeScoring ==
  mpc \in {"score", "summary", "done"} =>
    /\ nrecv = Len(resolvers)
    /\ resultschan = <<>>
    /\ \A r \in Tasks : pc[r] \in {"releaseWorker", "done"}
    /\ DOMAIN results = Range(resolvers)
    /\ \A r \in Tasks : results[resolvers[r]] = local[r]

\* C4 witness: scoring has started on two resolvers with different bundles.
C4_Witness ==
  /\ mpc = "score"
  /\ \E a, b \in Tasks : local[a] # local[b]

\* C5: every bundle testrecursive returns has exactly the keys "ResolverHit"
\* and the configured operator names.
C5_BundleKeys ==
  /\ \A r \in Returned : DOMAIN local[r] = {"ResolverHit"} \cup DOMAIN auths
  /\ \A k \in DOMAIN resultschan :
       DOMAIN resultschan[k].result = {"ResolverHit"} \cup DOMAIN auths
  /\ \A k \in DOMAIN results :
       DOMAIN results[k] = {"ResolverHit"} \cup DOMAIN auths

\* C5 witness: a bundle is on the channel whose run saw failed and answered
\* queries alike.
C5_Witness ==
  /\ resultschan # <<>>
  /\ \E r \in Tasks, k \in DOMAIN auths :
       /\ errs[r]["ResolverHit"] > 0
       /\ errs[r][k] = 0

\* The four checks of the probe, on a response.
RespAnswered(resp) == ~resp.err
RespOneAnswer(resp) == Len(resp.answer) = 1
RespIsA(resp) == resp.answer[1].rrtype = "A"
RespAllowed(resp) == resp.answer[1].a \in {"138.197.54.54", "138.197.53.4"}

\* C6: a probe returns the round-trip time and no error exactly when the
\* exchange had no error, there is one answer, it is an A record and its
\* address is allowed; otherwise it returns 10 s and an error whose cause is
\* the first that applies: transport, answer count, record type, address.
C6_ProbeOutcome ==
  \A r \in Tasks :
    ret[r].err # "none" =>
      LET resp == inresp[r]
          good == /\ RespAnswered(resp)
                  /\ RespOneAnswer(resp)
                  /\ RespIsA(resp)
                  /\ RespAllowed(resp)
      IN /\ (ret[r].err = ErrNil) <=> good
         /\ good => ret[r].dur = resp.rtt
         /\ ~good =>
              /\ ret[r].dur = 10 * 1000 * Millisecond
              /\ ret[r].err =
                   IF ~RespAnswered(resp) THEN "exchange error"
                   ELSE IF ~RespOneAnswer(resp) THEN "Number of answers is not 1"
                   ELSE IF ~RespIsA(resp) THEN "Answer is not type A"
                   ELSE "Got strange answer. Evil hijacking resolver?"

\* C6 witness: a probe has rejected a response that breaks the count, the
\* type and the address check at once, with the count error.
C6_Witness ==
  \E r \in Tasks :
    /\ inresp[r] = RespTwoAnswers
    /\ ret[r].err = "Number of answers is not 1"

\* C7: every summary stored comes from exactly 15 probe calls, failed ones
\* included, and its failure ratio is the number of failed calls over 15.
C7_RunTestsCalls ==
  \A r \in Tasks :
    /\ \A k \in DOMAIN local[r] :
         /\ calls[r][k] = 15
         /\ local[r][k].failratio = <<errs[r][k], 15>>
    /\ \A k \in Keys \ {"prime"} : calls[r][k] <= 15
    /\ pc[r] \in {"send", "releaseWorker", "done"} =>
         \A k \in Keys \ {"prime"} : k \in DOMAIN local[r]

\* C7 witness: a summary of a run in which some calls failed and some did not.
C7_Witness ==
  \E r \in Tasks :
    /\ "ResolverHit" \in DOMAIN local[r]
    /\ errs[r]["ResolverHit"] > 0
    /\ errs[r]["ResolverHit"] < 15

\* C8: a summary of 15 failed calls has failure ratio 1 and mean and median
\* both equal to the fail duration.
C8_AllFailed ==
  \A r \in Tasks : \A k \in DOMAIN local[r] :
    errs[r][k] = testrep =>
      /\ local[r][k].failratio[1] = local[r][k].failratio[2]
      /\ local[r][k].mean = failDuration
      /\ local[r][k].median = failDuration

\* C8 witness: a summary of 15 calls that all met a hijacked answer.
C8_Witness ==
  \E r \in Tasks : \E k \in DOMAIN local[r] :
    /\ errs[r][k] = testrep
    /\ net[r].then = RespHijack
    /\ k # "ResolverHit"

\* C9: a summary of 15 calls none of which failed has mean and median both
\* strictly below the fail duration.
C9_NoneFailed ==
  \A r \in Tasks : \A k \in DOMAIN local[r] :
    errs[r][k] = 0 =>
      /\ local[r][k].mean < failDuration
      /\ local[r][k].median < failDuration

\* C9 witness: a summary of 15 answered calls, some as slow as the timeout
\* allows.
C9_Witness ==
  \E r \in Tasks : \E k \in DOMAIN local[r] :
    /\ errs[r][k] = 0
    /\ local[r][k].median = QueryTimeout
    /\ local[r][k].mean < local[r][k].median

\* The "ResolverHit" summary of the second bundle is larger: neither value
\* smaller and one of them larger.
HitLarger(x, y) ==
  /\ y["ResolverHit"].mean >= x["ResolverHit"].mean
  /\ y["ResolverHit"].median >= x["ResolverHit"].median
  /\ \/ y["ResolverHit"].mean > x["ResolverHit"].mean
     \/ y["ResolverHit"].median > x["ResolverHit"].median

SameAuths(x, y) == \A k \in DOMAIN auths : x[k] = y[k]

\* C10: of two scored bundles that agree on every operator summary, the one
\* with the larger "ResolverHit" mean or median has the strictly larger score,
\* by exactly 5 times the difference in milliseconds.
C10_ScoreStrictlyMonotone ==
  mpc \in {"summary", "done"} =>
    \A a, b \in Tasks :
      LET x == results[resolvers[a]]
          y == results[resolvers[b]]
          sx == resscore[resolvers[a]]
          sy == resscore[resolvers[b]]
      IN (SameAuths(x, y) /\ HitLarger(x, y)) =>
           /\ sy > sx
           /\ (sy - sx) * Millisecond =
                5 * ((y["ResolverHit"].mean - x["ResolverHit"].mean)
                     + (y["ResolverHit"].median - x["ResolverHit"].median))

\* C11: the ranked summary has one row for every resolver of the list, each
\* with that resolver's score, the rows are in non-decreasing order of score,
\* and the recommended resolver is the one of the first row, whose score is
\* the least of all.
C11_RankedSummary ==
  mpc = "done" =>
    /\ Len(summary) = Len(resolvers)
    /\ \A r \in Tasks :
         Cardinality({k \in DOMAIN summary : summary[k].Res = resolvers[r]}) = 1
    /\ \A k \in DOMAIN summary : summary[k].Score = Score(results[summary[k].Res])
    /\ \A k, l \in DOMAIN summary : k < l => summary[k].Score <= summary[l].Score
    /\ Recommendation = summary[1].Res
    /\ \A r \in Tasks :
         Score(results[Recommendation]) <= Score(results[resolvers[r]])

\* C11 witness: the report is out, the second resolver of the list was the
\* first to deliver and has the strictly better score, so it is the first row.
C11_Witness ==
  /\ mpc = "done"
  /\ Len(resolvers) >= 2
  /\ Recommendation = resolvers[2]
  /\ summary[1].Score < summary[2].Score
  /\ summary[2].Res = resolvers[1]

\* The -resolver values init() has gone through so far.
FlagsDone == IF mpc = "init" THEN mi - 1 ELSE Len(tmp)

\* The entries of s that are not repeats of an earlier entry, in order.
FirstOccurrences(s) ==
  LET keep == {k \in DOMAIN s : \A j \in 1..(k - 1) : s[j] # s[k]}
      nth(n) == CHOOSE k \in keep : Cardinality({j \in keep : j <= k}) = n
  IN [n \in 1..Cardinality(keep) |-> s[nth(n)]]

\* C12: the resolver list is the default list followed by the user's additions
\* in the order given, only the first occurrence of each address kept: the
\* defaults stay in front in their order, an address already in the list adds
\* nothing, and no address is in the list twice.
C12_ResolverList ==
  /\ resolvers = FirstOccurrences(defaultResolvers \o SubSeq(tmp, 1, FlagsDone))
  /\ SubSeq(resolvers, 1, Len(defaultResolvers)) = defaultResolvers
  /\ \A k, l \in DOMAIN resolvers : k # l => resolvers[k] # resolvers[l]
  /\ Len(resolvers) =
       Cardinality(Range(defaultResolvers) \cup Range(SubSeq(tmp, 1, FlagsDone)))

\* C12 witness: init() has returned after additions that held a default
\* address and the same new address twice.
C12_Witness ==
  /\ mpc = "launch"
  /\ \E k \in DOMAIN tmp : tmp[k] \in Range(defaultResolvers)
  /\ \E k, l \in DOMAIN tmp :
       k < l /\ tmp[k] = tmp[l] /\ tmp[k] \notin Range(defaultResolvers)
  /\ Len(resolvers) = Len(defaultResolvers) + 1

\* The rows of the table for `server` whose seven columns after the label all
\* read FAIL.
FailRowsOf(server) ==
  {k \in DOMAIN table :
     /\ table[k][1].server = server
     /\ \A c \in 2..8 : table[k][c].kind = "text" /\ table[k][c].text = "FAIL"}

\* The servers the collaborator returned a result for.
ServersReported == {httpresults[k].Server : k \in DOMAIN httpresults}

\* C13: in HTTP-test mode the rendered table has, for every resolver of the
\* list without a result of the collaborator, exactly one row for it with all
\* seven columns FAIL, and no such row for a resolver that has a result.
C13_FailRows ==
  mpc = "exit" =>
    /\ \A k \in DOMAIN table : Len(table[k]) = 8
    /\ \A r \in DOMAIN resolvers :
         IF resolvers[r] \in ServersReported
         THEN FailRowsOf(resolvers[r]) = {}
         ELSE Cardinality(FailRowsOf(resolvers[r])) = 1

\* C13 witness: the table is rendered; one resolver has two results and no
\* FAIL row, another has no result and its FAIL row.
C13_Witness ==
  /\ mpc = "exit"
  /\ \E a, b \in DOMAIN resolvers :
       /\ Cardinality({k \in DOMAIN httpresults : httpresults[k].Server = resolvers[a]}) = 2
       /\ FailRowsOf(resolvers[a]) = {}
       /\ resolvers[b] \notin ServersReported
       /\ NameOf(resolvers[b]) = "Unknown"
       /\ Cardinality(FailRowsOf(resolvers[b])) = 1

Orchestrating == {r \in Tasks : pc[r] \in {"queryAcquire", "exchange"}}

\* Tasks whose bundle has left them: it is in the channel or in main's map.
Delivered ==
  {r \in Tasks :
     \/ \E k \in DOMAIN resultschan : resultschan[k].recursive = resolvers[r]
     \/ resolvers[r] \in DOMAIN results}

\* C15 as stated: a task gives its worker permit back before it delivers, so
\* the permits out are never more than the tasks inside testrecursive.
C15_ReleasedBeforeDelivery == workerLimit.cur <= Cardinality(Orchestrating)

\* C15 amended: a task acquires its permit, runs testrecursive, delivers the
\* bundle and only then releases the permit: the permits out are exactly those
\* of the tasks between the acquire and the deferred release, a task at the
\* send has its whole bundle and still holds its permit, and a task past the
\* send has delivered.
C15_ReleasedAfterDelivery ==
  LET holders == HoldsWorker
      delivered == Delivered
  IN /\ workerLimit.cur = Cardinality(holders)
     /\ \A r \in Tasks :
          /\ pc[r] = "send" =>
               /\ r \in holders
               /\ r \notin delivered
               /\ DOMAIN local[r] = {"ResolverHit"} \cup Range(authSl)
          /\ pc[r] \in {"releaseWorker", "done"} => r \in delivered
          /\ pc[r] = "done" => r \notin holders

\* C15 witness: a task has its bundle ready and waits at the send, the channel
\* still full of a bundle main has not received, and its permit, the only
\* one, is out.
C15_Witness ==
  /\ mpc = "gather" /\ nrecv = 0
  /\ Len(resultschan) = ChanCap
  /\ \E a \in Tasks : pc[a] = "send" /\ a \notin Delivered
  /\ workerLimit.size = 1 /\ workerLimit.cur = 1

\* The eleven operator names in lexicographic (byte) order.
LexicographicOrder ==
  << "AWS Route53", "Akamai", "Azure", "CloudFlare", "DNSimple", "Dyn", "EasyDNS",
     "GoDaddy", "Google", "NS1", "Ultradns" >>

IsConfigured(op) == op \in DOMAIN auths

\* The configured operators in lexicographic order.
OperatorsInOrder == SelectSeq(LexicographicOrder, IsConfigured)

RECURSIVE SumCalls(_, _, _)
SumCalls(c, ops, k) == IF k > Len(ops) THEN 0 ELSE c[ops[k]] + SumCalls(c, ops, k + 1)

\* The probe calls of task r that have returned.
ReturnedCalls(r) ==
  calls[r]["prime"] + calls[r]["ResolverHit"] + SumCalls(calls[r], OperatorsInOrder, 1)

\* n cut to the range 0..top.
Clamp(n, top) == IF n < 0 THEN 0 ELSE IF n > top THEN top ELSE n

\* The question of the n-th query of a testrecursive whose draw picked the
\* cache-hit hostname h: 5 priming and 15 measured queries for h as it is,
\* then 15 randomised queries for each operator in order.
QuestionNo(n, h) ==
  IF n <= PrimeCount + testrep THEN [host |-> h, rnd |-> FALSE]
  ELSE [host |-> auths[OperatorsInOrder[((n - PrimeCount - testrep - 1) \div testrep) + 1]],
        rnd |-> TRUE]

Outstanding(r) == issued[r] - ReturnedCalls(r)

\* C17: every resolver has at most one query in flight or waiting for a slot:
\* the list names it once, so one task tests it, and that task makes a call
\* only when its previous call has returned; the slots taken are never more
\* than the tasks that have a call outstanding.
C17_OneQueryPerResolver ==
  /\ \A a, b \in Tasks : a # b => resolvers[a] # resolvers[b]
  /\ \A r \in Tasks :
       LET out == Outstanding(r)
       IN /\ out >= 0 /\ out <= 1
          /\ out = 1 <=> pc[r] \in {"queryAcquire", "exchange"}
  /\ queryLimit.cur <= Cardinality({r \in Tasks : pc[r] \in {"queryAcquire", "exchange"}})

\* C17 witness: two query slots are taken by two resolvers, one measured query
\* and one priming query, each resolver with that single query outstanding.
C17_Witness ==
  \E a, b \in Tasks :
    /\ pc[a] = "exchange" /\ phase[a] = 1 /\ issued[a] > PrimeCount
    /\ pc[b] = "exchange" /\ phase[b] = 0
    /\ queryLimit.cur = 2
    /\ Outstanding(a) = 1 /\ Outstanding(b) = 1

\* Tasks that have to wait for a worker permit.
WaitsForWorker == {r \in Tasks : pc[r] = "acquireWorker" /\ ~CanAcquire(workerLimit)}

\* C18: with -workers left at its default, once init() has built the list
\* workerLimit has as many permits as the list has resolvers, and no task
\* ever has to wait for a worker permit.
C18_DefaultPermitsCoverList ==
  mpc # "init" =>
    /\ workerLimit.size = Len(resolvers)
    /\ WaitsForWorker = {}

\* C19: the order of the rows and the recommendation are determined by the
\* resolver list and the bundles: the summary printed is the only one the
\* map range and sort.Sort can leave for these scores, equal scores included.
C19_DeterministicOrder ==
  mpc = "done" =>
    \A s \in SortedSummaries : s = summary /\ s[1].Res = Recommendation

\* Tasks that have not delivered their bundle yet.
StillRunning ==
  {r \in Tasks : pc[r] \in {"unlaunched", "acquireWorker", "queryAcquire", "exchange", "send"}}

\* C20 as stated: a bundle is merged into the results map only after the
\* concurrent phase is over, no task still running.
C20_MergedAfterAllTasks == DOMAIN results # {} => StillRunning = {}

\* C20 amended: the results map is written by main alone, one bundle for each
\* receive of the gather loop and so possibly while other tasks still run;
\* every bundle in it is the finished bundle of the task of that resolver,
\* which has delivered, and once main goes on to read the map it holds the
\* bundle of every resolver.
C20_MergedByMainOnly ==
  /\ Cardinality(DOMAIN results) = nrecv
  /\ DOMAIN results # {} => mpc \in {"gather", "score", "summary", "done"}
  /\ \A k \in DOMAIN results :
       \E r \in Tasks :
         /\ resolvers[r] = k
         /\ pc[r] \in {"releaseWorker", "done"}
         /\ results[k] = local[r]
  /\ mpc \in {"score", "summary", "done"} => DOMAIN results = Range(resolvers)

\* C20 witness: main has merged the bundle of one resolver while the task of
\* another has a query in flight.
C20_Witness ==
  /\ mpc = "gather"
  /\ \E a, b \in Tasks :
       /\ resolvers[a] \in DOMAIN results
       /\ pc[b] = "exchange"
       /\ resolvers[b] \notin DOMAIN results

====
